---- MODULE Spec2Model ----
(***************************************************************************)
(* Model of the Sentinel-1 RTC notebook (Sentinel1-RTC-example.ipynb):     *)
(* catalog search over an object store, construction of a virtual mosaic   *)
(* through two files on the local disk, temporal relabeling of the bands,  *)
(* monthly aggregation and spatial / temporal extraction.                  *)
(*                                                                         *)
(* Python strings are sequences of one-character strings, so that the      *)
(* fixed-offset slices of the notebook are computed, not assumed.          *)
(***************************************************************************)
EXTENDS Integers, Sequences, FiniteSets, TLC

VARIABLES bucket, run, manifest, vrts, ras

vars == <<bucket, run, manifest, vrts, ras>>

(***************************************************************************)
(* Strings                                                                 *)
(***************************************************************************)

\* The characters the object keys use, in increasing code-point order.
Alphabet ==
    <<"*", "-", ".", "/", "0", "1", "2", "3", "4", "5", "6", "7", "8", "9",
      "A", "B", "C", "D", "E", "G", "I", "J", "K", "R", "S", "T", "V", "W", "Y",
      "_", "a", "c", "d", "e", "f", "g", "i", "k", "l", "m", "n", "o", "r",
      "s", "t", "v">>

\* Python ord(), up to an order-preserving renumbering.
Ord(c) == CHOOSE i \in 1..Len(Alphabet) : Alphabet[i] = c

Min(a, b) == IF a < b THEN a ELSE b

Max(a, b) == IF a < b THEN b ELSE a

\* Python's normalisation of a slice bound i for a sequence of length n.
PyBound(n, i) == IF i < 0 THEN Max(n + i, 0) ELSE Min(i, n)

\* Python s[a:b].
Slice(s, a, b) == SubSeq(s, PyBound(Len(s), a) + 1, PyBound(Len(s), b))

\* Python s[a:].
SliceFrom(s, a) == SubSeq(s, PyBound(Len(s), a) + 1, Len(s))

\* Python's str comparison s < t: lexicographic by code point.
RECURSIVE StrLess(_, _)
StrLess(s, t) ==
    IF t = <<>> THEN FALSE
    ELSE IF s = <<>> THEN TRUE
    ELSE IF Ord(Head(s)) # Ord(Head(t)) THEN Ord(Head(s)) < Ord(Head(t))
    ELSE StrLess(Tail(s), Tail(t))

Digit(c) == Ord(c) - Ord("0")

\* int() of a string of decimal digits.
RECURSIVE StrToNat(_)
StrToNat(s) ==
    IF s = <<>> THEN 0
    ELSE 10 * StrToNat(SubSeq(s, 1, Len(s) - 1)) + Digit(s[Len(s)])

\* str() of a natural number, as an f-string formats it.
RECURSIVE NatToStr(_)
NatToStr(n) ==
    IF n < 10 THEN <<Alphabet[Ord("0") + n]>>
    ELSE NatToStr(n \div 10) \o <<Alphabet[Ord("0") + (n % 10)]>>

\* The value of a missing band description (Python None).
None == <<"None">>

(***************************************************************************)
(* The object store                                                        *)
(***************************************************************************)

\* Scenes of one tile in the archive: satellite, acquisition date, orbit.
Catalogue ==
    << [sat |-> <<"S", "1", "A">>, date |-> <<"2","0","2","0","0","1","0","3">>,
        dir |-> <<"D", "E", "S">>],
       [sat |-> <<"S", "1", "B">>, date |-> <<"2","0","2","0","0","1","0","2">>,
        dir |-> <<"A", "S", "C">>],
       [sat |-> <<"S", "1", "A">>, date |-> <<"2","0","2","0","0","1","0","1">>,
        dir |-> <<"A", "S", "C">>],
       [sat |-> <<"S", "1", "B">>, date |-> <<"2","0","1","9","1","2","3","0">>,
        dir |-> <<"A", "S", "C">>],
       [sat |-> <<"S", "1", "A">>, date |-> <<"2","0","1","9","1","2","3","0">>,
        dir |-> <<"D", "E", "S">>],
       [sat |-> <<"S", "1", "B">>, date |-> <<"2","0","2","0","0","1","0","3">>,
        dir |-> <<"A", "S", "C">>] >>

\* Scenes per tile and polarization in the store of the catalog-search model.
MaxScenes == 5

\* Scenes per tile in the store of the mosaic pipeline model.
PipeScenes == 2

\* Tile identifiers: UTM zone, latitude band, 100 km square.
Tiles ==
    { [zone |-> 12, latLabel |-> <<"S">>, square |-> <<"Y", "J">>],
      [zone |-> 12, latLabel |-> <<"S">>, square |-> <<"Y", "K">>] }

Pols == { <<"V", "V">>, <<"V", "H">> }

Star == <<"*">>

TileId(t) == NatToStr(t.zone) \o t.latLabel \o t.square

\* [SATELLITE]_[DATE]_[TILE ID]_[ORBIT DIRECTION], the directory of a scene.
SceneDir(o) ==
    o.sat \o <<"_">> \o o.date \o <<"_">> \o TileId(o.tile) \o <<"_">> \o o.dir

\* The part of s3Path after "s3://", up to the tile directory.
TilePath(t) ==
    <<"s","e","n","t","i","n","e","l","-","s","1","-","r","t","c","-",
      "i","n","d","i","g","o","/","t","i","l","e","s","/","R","T","C","/",
      "1","/","I","W","/">>
    \o NatToStr(t.zone) \o <<"/">> \o t.latLabel \o <<"/">> \o t.square \o <<"/">>

\* The key of the object holding scene o, following the documented layout.
KeyOf(o) ==
    TilePath(o.tile) \o SubSeq(o.date, 1, 4) \o <<"/">> \o SceneDir(o)
    \o <<"/", "G", "a", "m", "m", "a", "0", "_">> \o o.pol
    \o <<".", "t", "i", "f">>

Objects(n, tiles, pols) ==
    { [tile |-> t, pol |-> p, sat |-> Catalogue[i].sat,
       date |-> Catalogue[i].date, dir |-> Catalogue[i].dir] :
         t \in tiles, p \in pols, i \in 1..Min(n, Len(Catalogue)) }

\* The notebook's search parameters: every acquisition ('*'), those of one
\* year, or those of one date under its year.
Params(objs) ==
    { p \in [ tile : Tiles, year : {Star} \cup {SubSeq(o.date, 1, 4) : o \in objs},
              date : {Star} \cup {o.date : o \in objs}, polarization : Pols ] :
        p.date = Star \/ p.year = SubSeq(p.date, 1, 4) }

\* Whether the glob pattern built from parameters p matches object o. The
\* date parameter is '*' or stands for the pattern '*_<date>_*'.
Matches(p, o) ==
    /\ o.tile = p.tile
    /\ p.year = Star \/ p.year = SubSeq(o.date, 1, 4)
    /\ p.date = Star \/ p.date = o.date
    /\ o.pol = p.polarization

\* The sequences listing every element of S once.
Listings(S) ==
    { s \in [1..Cardinality(S) -> S] : \A i, j \in DOMAIN s : i # j => s[i] # s[j] }

(***************************************************************************)
(* Catalog search                                                          *)
(***************************************************************************)

Runs == {1, 2}

\* The whole key as the sort key: the alphabetical sort.
SortKeyWholeKey(x) == x

\* The sort key of keys.sort: the 8 characters of the date.
SortKey(x) == Slice(x, -32, -24)

\* x inserted behind every element whose key is not greater than its own.
RECURSIVE InsertByKey(_, _)
InsertByKey(sorted, x) ==
    IF sorted = <<>> THEN <<x>>
    ELSE IF StrLess(SortKey(x), SortKey(Head(sorted))) THEN <<x>> \o sorted
    ELSE <<Head(sorted)>> \o InsertByKey(Tail(sorted), x)

\* list.sort(key=...): the stable sort of s by SortKey.
RECURSIVE SortedByKey(_)
SortedByKey(s) ==
    IF s = <<>> THEN <<>>
    ELSE InsertByKey(SortedByKey(SubSeq(s, 1, Len(s) - 1)), s[Len(s)])

FileOf(key) == SliceFrom(key, -36)

SatelliteOf(x) == Slice(x, 0, 3)

DateOf(x) == Slice(x, 4, 12)

\* The direction read one character early.
DirectionOfShifted(x) == Slice(x, 18, 21)

DirectionOf(x) == Slice(x, 19, 22)

\* pd.to_datetime of a 'YYYYMMDD' string.
ToDatetime(s) ==
    [ year |-> StrToNat(Slice(s, 0, 4)), month |-> StrToNat(Slice(s, 4, 6)),
      day |-> StrToNat(Slice(s, 6, 8)) ]

\* The notebook's variables before any cell has run.
IdleRun ==
    [ pc |-> "idle", p |-> [tile |-> CHOOSE t \in Tiles : TRUE, year |-> Star,
                            date |-> Star, polarization |-> <<"V", "V">>],
      listing |-> <<>>, keys |-> <<>>, files |-> <<>>, satellites |-> <<>>,
      dates |-> <<>>, direction |-> <<>>, url |-> <<>>, vrtName |-> <<>>,
      da3 |-> <<>>, datetimes |-> <<>>,
      da |-> [band |-> <<>>, time |-> <<>>],
      daFull |-> [band |-> <<>>, time |-> <<>>],
      error |-> "none",
      \* History, not read by any step: whether another run was under way
      \* during this one, and whether another run wrote the manifest between
      \* this run's opening of it and its build of the mosaic.
      overlap |-> FALSE, clobbered |-> FALSE ]

Inactive(r) == run[r].pc \in {"idle", "done", "failed"}

\* No other run of the pipeline is under way.
Alone(r) == \A q \in Runs \ {r} : Inactive(q)

\* keys = s3.glob(s3Path[5:]) for the parameters chosen in the notebook.
Glob(r) ==
    /\ run[r].pc = "idle"
    /\ \E p \in Params(bucket) :
         \E listing \in Listings({KeyOf(o) : o \in {b \in bucket : Matches(p, b)}}) :
            run' = [q \in Runs |->
                      IF q = r
                      THEN [run[r] EXCEPT !.pc = "globbed", !.p = p,
                                          !.listing = listing, !.keys = listing,
                                          !.overlap = ~Alone(r)]
                      ELSE [run[q] EXCEPT !.overlap = @ \/ ~Inactive(q)]]
    /\ UNCHANGED <<bucket, manifest, vrts, ras>>

\* keys.sort(...) and the four lists parsed from the sorted keys.
SortParse(r) ==
    /\ run[r].pc = "globbed"
    /\ LET keys == SortedByKey(run[r].keys)
           files == [i \in 1..Len(keys) |-> FileOf(keys[i])]
       IN run' = [run EXCEPT
                    ![r].pc = "parsed", ![r].keys = keys, ![r].files = files,
                    ![r].satellites = [i \in 1..Len(files) |-> SatelliteOf(files[i])],
                    ![r].dates = [i \in 1..Len(files) |-> DateOf(files[i])],
                    ![r].direction = [i \in 1..Len(files) |-> DirectionOf(files[i])]]
    /\ UNCHANGED <<bucket, manifest, vrts, ras>>

(***************************************************************************)
(* Mosaic construction and temporal relabeling                             *)
(***************************************************************************)

S3Url(key) == <<"s", "3", ":", "/", "/">> \o key

\* The line with the prefix as the notebook's comment spells it, "/vsis/".
VsiLineTypo(key) == <<"/", "v", "s", "i", "s", "/">> \o key

\* One line of s3paths.txt, without its newline.
VsiLine(key) == <<"/", "v", "s", "i", "s", "3", "/">> \o key

\* The name without the square: f'stack{zone}{latLabel}.vrt'
VrtNameNoSquare(p) ==
    <<"s", "t", "a", "c", "k">> \o NatToStr(p.tile.zone) \o p.tile.latLabel
    \o <<".", "v", "r", "t">>

\* vrtName = f'stack{zone}{latLabel}{square}.vrt'
VrtName(p) ==
    <<"s", "t", "a", "c", "k">> \o NatToStr(p.tile.zone) \o p.tile.latLabel
    \o p.tile.square \o <<".", "v", "r", "t">>

VrtNames == { VrtName([tile |-> t]) : t \in Tiles }

NoFile == [exists |-> FALSE, bands |-> <<>>, descriptions |-> <<>>]

Fail(r, e) == [run EXCEPT ![r].pc = "failed", ![r].error = e]

\* s3Paths = ['s3://' + key for key in keys]; url = s3Paths[0]
Probe(r) ==
    /\ run[r].pc = "parsed"
    /\ LET s3Paths == [i \in 1..Len(run[r].keys) |-> S3Url(run[r].keys[i])]
       IN run' = IF s3Paths = <<>> THEN Fail(r, "IndexError")
                 ELSE [run EXCEPT ![r].pc = "probed", ![r].url = s3Paths[1]]
    /\ UNCHANGED <<bucket, manifest, vrts, ras>>

\* Run q has opened the manifest and not yet built its mosaic from it.
InManifestWindow(q) == run[q].pc \in {"writing", "written"}

\* open('s3paths.txt', 'w'): the file is truncated when it is opened.
OpenManifest(r) ==
    /\ run[r].pc = "probed"
    /\ manifest' = <<>>
    /\ run' = [q \in Runs |->
                IF q = r THEN [run[r] EXCEPT !.pc = "writing"]
                ELSE [run[q] EXCEPT !.clobbered = @ \/ InManifestWindow(q)]]
    /\ UNCHANGED <<bucket, vrts, ras>>

\* What the file holds once the lines of a writer that opened it with 'w'
\* are flushed from offset 0 (all lines of the model have one length).
Flushed(old, lines) == lines \o SubSeq(old, Len(lines) + 1, Len(old))

\* The with block ends: the buffered lines, one per key, reach the file.
CloseManifest(r) ==
    /\ run[r].pc = "writing"
    /\ manifest' = Flushed(manifest,
                           [i \in 1..Len(run[r].keys) |-> VsiLine(run[r].keys[i])])
    /\ run' = [q \in Runs |->
                IF q = r
                THEN [run[r] EXCEPT !.pc = "written", !.vrtName = VrtName(run[r].p)]
                ELSE [run[q] EXCEPT !.clobbered = @ \/ InManifestWindow(q)]]
    /\ UNCHANGED <<bucket, vrts, ras>>

\* gdalbuildvrt without -overwrite: an existing descriptor is kept.
BuiltVrtNoOverwrite(old, lines) ==
    IF lines = <<>> \/ old.exists THEN old
    ELSE [exists |-> TRUE, bands |-> lines,
          descriptions |-> [i \in 1..Len(lines) |-> None]]

\* gdalbuildvrt -overwrite -separate -input_file_list: one band per line of
\* the input list, in the order of the list, no band described.
BuiltVrt(old, lines) ==
    IF lines = <<>> THEN old
    ELSE [exists |-> TRUE, bands |-> lines,
          descriptions |-> [i \in 1..Len(lines) |-> None]]

BuildVrt(r) ==
    /\ run[r].pc = "written"
    /\ vrts' = [vrts EXCEPT ![run[r].vrtName] = BuiltVrt(@, manifest)]
    /\ run' = [run EXCEPT ![r].pc = "built"]
    /\ UNCHANGED <<bucket, manifest, ras>>

\* rasterio.open(vrtName, 'r+'); src.descriptions = files
SetDescriptions(r) ==
    /\ run[r].pc = "built"
    /\ LET vrt == vrts[run[r].vrtName]
       IN IF ~vrt.exists
          THEN /\ run' = Fail(r, "RasterioIOError")
               /\ vrts' = vrts
          ELSE IF Len(run[r].files) # Len(vrt.bands)
          THEN /\ run' = Fail(r, "ValueError")
               /\ vrts' = vrts
          ELSE /\ run' = [run EXCEPT ![r].pc = "labelled"]
               /\ vrts' = [vrts EXCEPT ![run[r].vrtName].descriptions = run[r].files]
    /\ UNCHANGED <<bucket, manifest, ras>>

\* da3 = rioxarray.open_rasterio(vrtName, overview_level=3, ...).compute():
\* band i of the array holds the pixels of source i of the mosaic.
OpenOverview(r) ==
    /\ run[r].pc = "labelled"
    /\ run' = [run EXCEPT ![r].pc = "opened", ![r].da3 = vrts[run[r].vrtName].bands]
    /\ UNCHANGED <<bucket, manifest, vrts, ras>>

\* The date read one character late.
LabelDateShifted(x) == Slice(x, 5, 13)

\* x[4:12] of a band description.
LabelDate(x) == Slice(x, 4, 12)

\* datetimes = [pd.to_datetime(x[4:12]) for x in src.descriptions]
ReadDescriptions(r) ==
    /\ run[r].pc = "opened"
    /\ LET filenames == vrts[run[r].vrtName].descriptions
       IN run' = IF \E i \in 1..Len(filenames) : filenames[i] = None
                 THEN Fail(r, "TypeError")
                 ELSE [run EXCEPT
                         ![r].pc = "dated",
                         ![r].datetimes =
                            [i \in 1..Len(filenames) |-> ToDatetime(LabelDate(filenames[i]))]]
    /\ UNCHANGED <<bucket, manifest, vrts, ras>>

\* assign_coords(time=('band', datetimes)) on an array with the given bands.
Relabelled(bands, datetimes) == [band |-> bands, time |-> datetimes]

\* da = da3.assign_coords(time=('band', datetimes)).swap_dims({'band':'time'})
AssignCoords(r) ==
    /\ run[r].pc = "dated"
    /\ run' = IF Len(run[r].datetimes) # Len(run[r].da3) THEN Fail(r, "ValueError")
              ELSE [run EXCEPT ![r].pc = "relabelled",
                               ![r].da = Relabelled(run[r].da3, run[r].datetimes)]
    /\ UNCHANGED <<bucket, manifest, vrts, ras>>

\* da = rioxarray.open_rasterio(vrtName, masked=True, ...) relabelled with the
\* datetimes computed before.
FullRes(r) ==
    /\ run[r].pc = "relabelled"
    /\ LET bands == vrts[run[r].vrtName].bands
       IN run' = IF Len(run[r].datetimes) # Len(bands) THEN Fail(r, "ValueError")
                 ELSE [run EXCEPT ![r].pc = "fullres",
                                  ![r].daFull = Relabelled(bands, run[r].datetimes)]
    /\ UNCHANGED <<bucket, manifest, vrts, ras>>

\* The session ends.
Exit(r) ==
    /\ run[r].pc = "fullres"
    /\ run' = [run EXCEPT ![r].pc = "done"]
    /\ UNCHANGED <<bucket, manifest, vrts, ras>>

NoRaster == [pc |-> "none"]

InitDisk ==
    /\ run = [r \in Runs |-> IdleRun]
    /\ manifest = <<>>
    /\ vrts = [n \in VrtNames |-> NoFile]
    /\ ras = NoRaster

\* The archive holds one polarization of the first scenes of every tile.
Init ==
    /\ bucket = Objects(PipeScenes, Tiles, {<<"V", "V">>})
    /\ InitDisk

InitCatalog ==
    /\ bucket = Objects(MaxScenes, Tiles, Pols)
    /\ InitDisk

\* One run of the pipeline at a time, as the notebook assumes.
Next ==
    \E r \in Runs :
        \/ Alone(r) /\ Glob(r)
        \/ SortParse(r)
        \/ Probe(r)
        \/ OpenManifest(r)
        \/ CloseManifest(r)
        \/ BuildVrt(r)
        \/ SetDescriptions(r)
        \/ OpenOverview(r)
        \/ ReadDescriptions(r)
        \/ AssignCoords(r)
        \/ FullRes(r)
        \/ Exit(r)

Spec == Init /\ [][Next]_vars

\* Runs of the pipeline started in the same directory at any time.
NextConc ==
    \E r \in Runs :
        \/ Glob(r)
        \/ SortParse(r)
        \/ Probe(r)
        \/ OpenManifest(r)
        \/ CloseManifest(r)
        \/ BuildVrt(r)
        \/ SetDescriptions(r)
        \/ OpenOverview(r)
        \/ ReadDescriptions(r)
        \/ AssignCoords(r)
        \/ FullRes(r)
        \/ Exit(r)

SpecConc == Init /\ [][NextConc]_vars

\* Catalog search alone, over an archive with both polarizations.
NextCatalog ==
    \E r \in Runs :
        \/ Alone(r) /\ Glob(r)
        \/ SortParse(r)

SpecCatalog == InitCatalog /\ [][NextCatalog]_vars

(***************************************************************************)
(* Rasters: aggregation and extraction                                     *)
(*                                                                         *)
(* A raster has x coordinates (ascending), y coordinates, one timestamp    *)
(* per band and, per band, a value for every pixel <<x, y>>. Pixel values  *)
(* are small naturals standing for backscatter, 0 the no-data sentinel;    *)
(* a mean is kept exactly, as the sum and the count of what it averages.   *)
(* The overview and the full resolution of the mosaic are read on the same *)
(* pixel grid.                                                             *)
(***************************************************************************)

\* Bands of the rasters of the aggregation model.
MaxBands == 2

\* Region vertices of the extraction model lie on 1..MaxCoord in x and y.
MaxCoord == 7

PixelValues == {0, 1, 2}

\* Values of a masked array: a number, or NaN.
NaN == [nan |-> TRUE]

Num(v) == [nan |-> FALSE, v |-> v]

\* The no-data value a mosaic declares; one that declares none.
Declared(v) == [declared |-> TRUE, value |-> v]

Undeclared == [declared |-> FALSE]

Stamp(y, m, d) == [year |-> y, month |-> m, day |-> d]

\* Acquisition dates of the bands, in chronological order.
BandDates == <<Stamp(2020, 1, 5), Stamp(2020, 1, 20), Stamp(2020, 3, 3)>>

Pixels(xs, ys) == { <<xs[i], ys[j]>> : i \in DOMAIN xs, j \in DOMAIN ys }

RECURSIVE SumOver(_, _)
SumOver(f, S) ==
    IF S = {} THEN 0
    ELSE LET a == CHOOSE a \in S : TRUE IN f[a].v + SumOver(f, S \ {a})

\* The mean of the values of f over S that are not NaN (skipna).
NanMean(f, S) ==
    LET valid == { a \in S : ~f[a].nan }
    IN IF valid = {} THEN NaN
       ELSE [nan |-> FALSE, sum |-> SumOver(f, valid), count |-> Cardinality(valid)]

\* array.where(array != 0): the zeros become NaN.
WhereNonZero(data) ==
    [t \in DOMAIN data |-> [c \in DOMAIN data[t] |->
        IF data[t][c] # 0 THEN Num(data[t][c]) ELSE NaN]]

\* Months are counted from year 0.
MonthIndex(ts) == ts.year * 12 + (ts.month - 1)

\* array.resample(time='1m').mean(): one layer per calendar month from the
\* first to the last timestamp, each pixel the mean of the values of the
\* bands of that month that are not NaN.
ResampleMean(array) ==
    LET T == DOMAIN array.time
        first == MonthIndex(array.time[1])
        last == MonthIndex(array.time[Len(array.time)])
        bands(m) == { t \in T : MonthIndex(array.time[t]) = first + m - 1 }
    IN [ xs |-> array.xs, ys |-> array.ys,
         time |-> [m \in 1..(last - first + 1) |-> first + m - 1],
         data |-> [m \in 1..(last - first + 1) |->
                     [c \in Pixels(array.xs, array.ys) |->
                         NanMean([t \in T |-> array.data[t][c]], bands(m))]] ]

\* mosaic_mean = da.where(da!=0).resample(time='1m').mean()
MonthlyMean(array) ==
    ResampleMean([array EXCEPT !.data = WhereNonZero(array.data)])

IsIncreasing(index) == \A i, j \in DOMAIN index : i < j => index[i] <= index[j]

\* The positions a label slice selects from a monotonic index: both ends
\* are included, and the slice runs in the direction of the index.
SliceLocs(index, start, stop) ==
    IF IsIncreasing(index)
    THEN { i \in DOMAIN index :
             /\ i > Cardinality({k \in DOMAIN index : index[k] < start})
             /\ i <= Cardinality({k \in DOMAIN index : index[k] <= stop}) }
    ELSE { i \in DOMAIN index :
             /\ i > Cardinality({k \in DOMAIN index : index[k] > start})
             /\ i <= Cardinality({k \in DOMAIN index : index[k] >= stop}) }

\* The elements of s at the positions P, in order.
RECURSIVE Pick(_, _)
Pick(s, P) ==
    IF s = <<>> THEN <<>>
    ELSE Pick(SubSeq(s, 1, Len(s) - 1), P)
         \o (IF Len(s) \in P THEN <<s[Len(s)]>> ELSE <<>>)

\* array.sel(x=slice(x0, x1), y=slice(y0, y1))
Sel(array, x0, x1, y0, y1) ==
    LET xs == Pick(array.xs, SliceLocs(array.xs, x0, x1))
        ys == Pick(array.ys, SliceLocs(array.ys, y0, y1))
    IN [ xs |-> xs, ys |-> ys, time |-> array.time,
         data |-> [t \in DOMAIN array.data |->
                     [c \in Pixels(xs, ys) |-> array.data[t][c]]] ]

SetMin(S) == CHOOSE a \in S : \A b \in S : a <= b

SetMax(S) == CHOOSE a \in S : \A b \in S : b <= a

\* gfp.bounds.values[0]: (minx, miny, maxx, maxy) of the region.
Bounds(region) ==
    << SetMin({v[1] : v \in region}), SetMin({v[2] : v \in region}),
       SetMax({v[1] : v \in region}), SetMax({v[2] : v \in region}) >>

\* The row unpacked under the names of its columns.
UnpackInOrder(row) ==
    [xmin |-> row[1], ymin |-> row[2], xmax |-> row[3], ymax |-> row[4]]

\* xmin, ymax, xmax, ymin = gfp.bounds.values[0]
Unpack(row) ==
    [xmin |-> row[1], ymax |-> row[2], xmax |-> row[3], ymin |-> row[4]]

\* daT = da.sel(x=slice(xmin, xmax), y=slice(ymin, ymax))
Extract(array, region) ==
    LET b == Unpack(Bounds(region))
    IN Sel(array, b.xmin, b.xmax, b.ymin, b.ymax)

\* where(cond) without drop, then the mean over x and y.
MeanTrendKeepAll(array) ==
    [ time |-> array.time,
      data |-> [t \in DOMAIN array.time |->
                  NanMean(WhereNonZero(array.data)[t], Pixels(array.xs, array.ys))] ]

\* daT.where(daT!=0, drop=True).mean(dim=['x','y']): drop keeps, along every
\* dimension, the labels at which some pixel is not 0.
MeanTrend(array) ==
    LET P == Pixels(array.xs, array.ys)
        T == { t \in DOMAIN array.time : \E c \in P : array.data[t][c] # 0 }
        X == { i \in DOMAIN array.xs :
                 \E t \in DOMAIN array.time : \E c \in P :
                    c[1] = array.xs[i] /\ array.data[t][c] # 0 }
        Y == { j \in DOMAIN array.ys :
                 \E t \in DOMAIN array.time : \E c \in P :
                    c[2] = array.ys[j] /\ array.data[t][c] # 0 }
        kept == Pixels(Pick(array.xs, X), Pick(array.ys, Y))
        masked == WhereNonZero(array.data)
    IN [ time |-> Pick(array.time, T),
         data |-> Pick([t \in DOMAIN array.time |-> NanMean(masked[t], kept)], T) ]

\* rioxarray.open_rasterio(vrtName, masked=True): the values equal to the
\* no-data value the mosaic declares become NaN.
Masked(data, nodata) ==
    [t \in DOMAIN data |-> [c \in DOMAIN data[t] |->
        IF nodata.declared /\ data[t][c] = nodata.value THEN NaN
        ELSE Num(data[t][c])]]

\* The window of the full-resolution subset, slice(7.345e5, 7.614e5) in x and
\* slice(4.3336e6, 4.306e6) in y, on the pixel grid of the model.
SubsetWindow == [x0 |-> 1, x1 |-> 3, y0 |-> 5, y1 |-> 1]

\* The mosaic as the notebook holds it once the bands are relabelled.
Loaded(xs, ys, time, raw, nodata, region) ==
    [ pc |-> "loaded", nodata |-> nodata, region |-> region,
      da |-> [xs |-> xs, ys |-> ys, time |-> time, data |-> raw],
      mosaic_mean |-> <<>>, daT |-> <<>>, mean_trend |-> <<>>, csv |-> <<>>,
      daFull |-> <<>>, subset |-> <<>> ]

\* mosaic_mean = da.where(da!=0).resample(time='1m').mean()
Aggregate ==
    /\ ras.pc = "loaded"
    /\ ras' = [ras EXCEPT !.pc = "aggregated", !.mosaic_mean = MonthlyMean(ras.da)]
    /\ UNCHANGED <<bucket, run, manifest, vrts>>

\* The region's bounds unpacked and the raster sliced to them.
SelectRegion ==
    /\ ras.pc = "aggregated"
    /\ ras' = [ras EXCEPT !.pc = "selected", !.daT = Extract(ras.da, ras.region)]
    /\ UNCHANGED <<bucket, run, manifest, vrts>>

\* mean_trend = daT.where(daT!=0, drop=True).mean(dim=['x','y'])
TimeSeries ==
    /\ ras.pc = "selected"
    /\ ras' = [ras EXCEPT !.pc = "trended", !.mean_trend = MeanTrend(ras.daT)]
    /\ UNCHANGED <<bucket, run, manifest, vrts>>

\* mean_trend.data.to_csv('mean_trend.csv'): one row per entry of the series.
ToCsv ==
    /\ ras.pc = "trended"
    /\ ras' = [ras EXCEPT
                 !.pc = "saved",
                 !.csv = [i \in DOMAIN ras.mean_trend.time |->
                            <<ras.mean_trend.time[i], ras.mean_trend.data[i]>>]]
    /\ UNCHANGED <<bucket, run, manifest, vrts>>

\* da = rioxarray.open_rasterio(vrtName, masked=True, ...), relabelled.
OpenFullRes ==
    /\ ras.pc = "saved"
    /\ ras' = [ras EXCEPT
                 !.pc = "fullres",
                 !.daFull = [ras.da EXCEPT !.data = Masked(ras.da.data, ras.nodata)]]
    /\ UNCHANGED <<bucket, run, manifest, vrts>>

\* subset = da.sel(x=slice(...), y=slice(...)).resample(time='1m').mean()
Subset ==
    /\ ras.pc = "fullres"
    /\ ras' = [ras EXCEPT
                 !.pc = "subset",
                 !.subset = ResampleMean(Sel(ras.daFull, SubsetWindow.x0, SubsetWindow.x1,
                                             SubsetWindow.y0, SubsetWindow.y1))]
    /\ UNCHANGED <<bucket, run, manifest, vrts>>

NextRaster ==
    \/ Aggregate
    \/ SelectRegion
    \/ TimeSeries
    \/ ToCsv
    \/ OpenFullRes
    \/ Subset

InitNoPipeline ==
    /\ bucket = {}
    /\ run = [r \in Runs |-> IdleRun]
    /\ manifest = <<>>
    /\ vrts = [n \in VrtNames |-> NoFile]

\* The sequences of n band dates in chronological order.
DateSeqs(n) ==
    { [i \in 1..n |-> BandDates[f[i]]] :
        f \in { g \in [1..n -> DOMAIN BandDates] :
                  \A i, j \in 1..n : i < j => g[i] <= g[j] } }

\* Regions of the aggregation model: over both pixels, and over the first.
AggRegions ==
    { { <<1, 1>>, <<3, 1>>, <<1, 5>> }, { <<1, 3>>, <<3, 3>>, <<1, 5>> } }

\* Any pixel values in up to MaxBands bands of a column of two pixels, read
\* from a mosaic that declares 0 as its no-data value or declares none.
InitAgg ==
    /\ InitNoPipeline
    /\ \E n \in 1..MaxBands :
         \E time \in DateSeqs(n) :
           \E raw \in [1..n -> [Pixels(<<2>>, <<4, 2>>) -> PixelValues]] :
             \E nodata \in {Declared(0), Undeclared} :
               \E region \in AggRegions :
                 ras = Loaded(<<2>>, <<4, 2>>, time, raw, nodata, region)

SpecAgg == InitAgg /\ [][NextRaster]_vars

\* The pixel values of the extraction model.
Pattern(t, c) == ((c[1] \div 2) + (c[2] \div 2) + t) % 3

\* The sets of three vertices on the coordinates 1..n.
Triangles(n) ==
    { R \in { {a, b, c} : a, b, c \in (1..n) \X (1..n) } : Cardinality(R) = 3 }

\* Any triangle of vertices as the region, over a raster of three by three
\* pixels whose y coordinate is stored in descending order.
InitExtract ==
    /\ InitNoPipeline
    /\ \E region \in Triangles(MaxCoord) :
         ras = Loaded(<<2, 4, 6>>, <<6, 4, 2>>, <<BandDates[1], BandDates[3]>>,
                      [t \in 1..2 |-> [c \in Pixels(<<2, 4, 6>>, <<6, 4, 2>>) |-> Pattern(t, c)]],
                      Declared(0), region)

SpecExtract == InitExtract /\ [][NextRaster]_vars

(***************************************************************************)
(* Properties of catalog search and mosaic construction                    *)
(***************************************************************************)

Searched(r) == run[r].pc \notin {"idle"}

Parsed(r) == run[r].pc \notin {"idle", "globbed"}

\* The run has built and labelled its mosaic and goes on to read it.
Labelled(r) == run[r].pc \in {"labelled", "opened", "dated", "relabelled", "fullres"}

\* The object of the archive stored under a key.
SceneOf(key) == CHOOSE o \in bucket : KeyOf(o) = key

SameElements(s, t) ==
    /\ Len(s) = Len(t)
    /\ \A x \in {s[i] : i \in DOMAIN s} :
         Cardinality({i \in DOMAIN s : s[i] = x}) = Cardinality({i \in DOMAIN t : t[i] = x})

\* C1: once the keys are sorted, the acquisition dates parsed from the files
\* are non-decreasing, whatever the listing order and the satellite
\* prefixes, and the sorted keys are the listed keys.
C1_DatesNonDecreasing ==
    \A r \in Runs :
        Parsed(r) =>
            /\ SameElements(run[r].keys, run[r].listing)
            /\ \A i, j \in 1..Len(run[r].dates) :
                 i < j => StrToNat(run[r].dates[i]) <= StrToNat(run[r].dates[j])

\* The listing 20200101, 20200103, 20200102 comes out in date order.
C1_Witness ==
    \E r \in Runs :
        /\ Parsed(r)
        /\ [i \in 1..Len(run[r].listing) |-> SceneOf(run[r].listing[i]).date]
             = << <<"2","0","2","0","0","1","0","1">>, <<"2","0","2","0","0","1","0","3">>,
                  <<"2","0","2","0","0","1","0","2">> >>
        /\ [i \in 1..Len(run[r].listing) |-> SceneOf(run[r].listing[i]).sat]
             = << <<"S","1","A">>, <<"S","1","A">>, <<"S","1","B">> >>
        /\ run[r].dates
             = << <<"2","0","2","0","0","1","0","1">>, <<"2","0","2","0","0","1","0","2">>,
                  <<"2","0","2","0","0","1","0","3">> >>

\* C6: the file is the last 36 characters of the key, and the satellite id,
\* date and orbit direction taken at offsets [0:3], [4:12] and [19:22] are the
\* fields the key was constructed from; the sort key is that date.
C6_FixedOffsets ==
    \A r \in Runs :
        Parsed(r) =>
            \A i \in 1..Len(run[r].keys) :
                \E o \in bucket :
                    /\ KeyOf(o) = run[r].keys[i]
                    /\ Len(run[r].files[i]) = 36
                    /\ run[r].files[i] =
                         SceneDir(o) \o <<"/", "G", "a", "m", "m", "a", "0", "_">>
                         \o o.pol \o <<".", "t", "i", "f">>
                    /\ run[r].satellites[i] = o.sat
                    /\ run[r].dates[i] = o.date
                    /\ run[r].direction[i] = o.dir
                    /\ SortKey(run[r].keys[i]) = o.date

C6_Witness ==
    \E r \in Runs :
        /\ Parsed(r)
        /\ Len(run[r].keys) >= 2
        /\ run[r].satellites[1] = <<"S", "1", "B">>
        /\ run[r].direction[1] = <<"A", "S", "C">>
        /\ run[r].direction[2] = <<"D", "E", "S">>
        /\ run[r].p.polarization = <<"V", "H">>

\* A timestamp as the number YYYYMMDD.
DateNumber(ts) == ts.year * 10000 + ts.month * 100 + ts.day

\* The array has one band per scene reference of the run, band i read from
\* reference i and stamped with the acquisition date of reference i.
BandsDated(r, array) ==
    /\ Len(array.band) = Len(run[r].keys)
    /\ Len(array.time) = Len(run[r].keys)
    /\ \A i \in 1..Len(run[r].keys) :
         /\ array.band[i] = <<"/", "v", "s", "i", "s", "3", "/">> \o run[r].keys[i]
         /\ DateNumber(array.time[i]) = StrToNat(SceneOf(run[r].keys[i]).date)
         /\ DateNumber(array.time[i]) = StrToNat(run[r].dates[i])

\* C2: in the low-resolution and in the full-resolution relabeling, the
\* timestamp of band i is the acquisition date of scene reference i.
C2_BandDateCorrespondence ==
    \A r \in Runs :
        /\ run[r].pc \in {"relabelled", "fullres"} => BandsDated(r, run[r].da)
        /\ run[r].pc = "fullres" => BandsDated(r, run[r].daFull)

\* A run relabels a mosaic of two bands built over the mosaic of an earlier
\* run for the same tile.
C2_Witness ==
    \E r \in Runs : \E q \in Runs \ {r} :
        /\ run[r].pc = "fullres"
        /\ Len(run[r].daFull.time) = 2
        /\ run[r].daFull.time[1] # run[r].daFull.time[2]
        /\ run[q].pc = "done"
        /\ run[q].vrtName = run[r].vrtName

\* The descriptor of the run holds the run's own scene references: one band
\* per reference, in order, each labelled with its file name.
OwnMosaic(r) ==
    LET vrt == vrts[run[r].vrtName]
    IN /\ vrt.exists
       /\ Len(vrt.bands) = Len(run[r].keys)
       /\ Len(vrt.descriptions) = Len(run[r].keys)
       /\ \A i \in 1..Len(run[r].keys) :
            /\ vrt.bands[i] = <<"/", "v", "s", "i", "s", "3", "/">> \o run[r].keys[i]
            /\ vrt.descriptions[i] = run[r].files[i]
            /\ vrt.descriptions[i] = SliceFrom(run[r].keys[i], -36)

OwnManifest(r) ==
    /\ Len(manifest) = Len(run[r].keys)
    /\ \A i \in 1..Len(run[r].keys) :
         manifest[i] = <<"/", "v", "s", "i", "s", "3", "/">> \o run[r].keys[i]

\* C3: a single run writes a manifest whose line i is the prefixed path of
\* reference i, and its mosaic has exactly N bands in that order, band i
\* labelled with the file name of reference i.
C3_MosaicOfRun ==
    \A r \in Runs :
        /\ run[r].pc \in {"written", "built"} \/ Labelled(r) => OwnManifest(r)
        /\ Labelled(r) => OwnMosaic(r)

\* A run of two references has built its mosaic over the longer manifest and
\* the mosaic of an earlier run for the same tile.
C3_Witness ==
    \E r \in Runs : \E q \in Runs \ {r} :
        /\ run[r].pc = "labelled"
        /\ Len(run[r].keys) = 1
        /\ run[q].pc = "done"
        /\ Len(run[q].keys) = 2
        /\ run[q].vrtName = run[r].vrtName

\* C4: a run whose listing matched no key does not fail with an index or a
\* type error in the stages after catalog search.
C4_EmptyResultHandled ==
    \A r \in Runs :
        Searched(r) /\ run[r].listing = <<>> =>
            run[r].error \notin {"IndexError", "TypeError"}

\* C9: a run that goes on to read a mosaic that is not that of its own
\* sorted scene sequence was under way at the same time as another run.
C9_MismatchOnlyWhenOverlapped ==
    \A r \in Runs : Labelled(r) /\ ~OwnMosaic(r) => run[r].overlap

\* Two interleaved runs for the same tile, one of which reads a mosaic that
\* is not its own.
C9_Witness ==
    \E r \in Runs : \E q \in Runs \ {r} :
        /\ Labelled(r)
        /\ ~OwnMosaic(r)
        /\ Searched(q)
        /\ run[q].p.tile = run[r].p.tile
        /\ run[q].p.date # run[r].p.date

\* Every other run that was started targets another tile than run r.
OtherTiles(r) ==
    \A q \in Runs \ {r} : Searched(q) => run[q].p.tile # run[r].p.tile

RECURSIVE SumRaw(_, _)
SumRaw(f, S) ==
    IF S = {} THEN 0
    ELSE LET a == CHOOSE a \in S : TRUE IN f[a] + SumRaw(f, S \ {a})

\* In the composite, every pixel of every month that has both sentinel and
\* non-sentinel values in the mosaic holds the mean of the non-sentinel ones.
ZerosExcluded(comp) ==
    \A m \in DOMAIN comp.time : \A c \in Pixels(comp.xs, comp.ys) :
        LET bands == { t \in DOMAIN ras.da.time : MonthIndex(ras.da.time[t]) = comp.time[m] }
            valid == { t \in bands : ras.da.data[t][c] # 0 }
            series == [t \in DOMAIN ras.da.time |-> ras.da.data[t][c]]
        IN valid # {} /\ valid # bands =>
              /\ ~comp.data[m][c].nan
              /\ comp.data[m][c].sum * Cardinality(valid)
                   = SumRaw(series, valid) * comp.data[m][c].count

Aggregated == ras.pc \in {"aggregated", "selected", "trended", "saved", "fullres", "subset"}

\* C5: in the low-resolution composite and in the full-resolution subset
\* composite, a pixel of a period with both sentinel (0) and non-sentinel
\* values holds the mean of the non-sentinel values only.
C5_ZerosExcluded ==
    /\ Aggregated => ZerosExcluded(ras.mosaic_mean)
    /\ ras.pc = "subset" => ZerosExcluded(ras.subset)

\* The part of C5 about the low-resolution composite.
C5_LowResZerosExcluded == Aggregated => ZerosExcluded(ras.mosaic_mean)

Selected == ras.pc \in {"selected", "trended", "saved", "fullres", "subset"}

\* Pixel c lies in the bounding box of the vertices R.
InBox(c, R) ==
    /\ \E v \in R : v[1] <= c[1]
    /\ \E v \in R : c[1] <= v[1]
    /\ \E v \in R : v[2] <= c[2]
    /\ \E v \in R : c[2] <= v[2]

\* C7: the extracted subset is exactly the pixels of the raster inside the
\* bounding box of the region, with their values in every band.
C7_BoundingBoxSlice ==
    Selected =>
        /\ Pixels(ras.daT.xs, ras.daT.ys)
             = { c \in Pixels(ras.da.xs, ras.da.ys) : InBox(c, ras.region) }
        /\ ras.daT.time = ras.da.time
        /\ \A t \in DOMAIN ras.da.time : \A c \in Pixels(ras.daT.xs, ras.daT.ys) :
             ras.daT.data[t][c] = ras.da.data[t][c]

\* A triangle whose bounding box holds two pixels of the column x = 4, one
\* of them, <<4, 4>>, outside the triangle, and leaves out the other pixels
\* of the raster.
C7_Witness ==
    /\ ras.pc = "selected"
    /\ ras.region = { <<3, 1>>, <<5, 1>>, <<3, 5>> }
    /\ Pixels(ras.daT.xs, ras.daT.ys) = { <<4, 2>>, <<4, 4>> }
    /\ ras.daT.ys = <<4, 2>>

Trended == ras.pc \in {"trended", "saved", "fullres", "subset"}

\* The pixels of the spatial subset that are not the sentinel in band t.
ValidPixels(t) ==
    { c \in Pixels(ras.daT.xs, ras.daT.ys) : ras.daT.data[t][c] # 0 }

\* Entry k of the series is the mean of the valid pixels of band t.
IsMeanOf(k, t) ==
    /\ ras.mean_trend.time[k] = ras.daT.time[t]
    /\ IF ValidPixels(t) = {} THEN ras.mean_trend.data[k].nan
       ELSE /\ ~ras.mean_trend.data[k].nan
            /\ ras.mean_trend.data[k].sum * Cardinality(ValidPixels(t))
                 = SumRaw(ras.daT.data[t], ValidPixels(t)) * ras.mean_trend.data[k].count

\* C8 as stated: the series has one entry for every timestamp of the raster,
\* the mean of the pixels of the subset that are not the sentinel, and a
\* missing value where there is none.
C8_EntryPerTimestamp ==
    Trended =>
        /\ Len(ras.mean_trend.time) = Len(ras.daT.time)
        /\ Len(ras.mean_trend.data) = Len(ras.daT.time)
        /\ \A t \in DOMAIN ras.daT.time :
             t \in DOMAIN ras.mean_trend.time /\ IsMeanOf(t, t)

\* C8 amended: the series has one entry for every timestamp at which some
\* pixel of the subset is not the sentinel, in order, the mean of those
\* pixels; the timestamps whose pixels are all no-data have no entry, and
\* the exported file has the rows of the series.
C8_EntryPerObservedTimestamp ==
    Trended =>
        LET kept == { t \in DOMAIN ras.daT.time : ValidPixels(t) # {} }
        IN /\ Len(ras.mean_trend.time) = Cardinality(kept)
           /\ Len(ras.mean_trend.data) = Cardinality(kept)
           /\ \A t \in kept : IsMeanOf(Cardinality({u \in kept : u <= t}), t)
           /\ ras.pc # "trended" => Len(ras.csv) = Cardinality(kept)

\* Two bands over the whole column: the first all no-data, the second with
\* one valid pixel; the series has the second only.
C8_Witness ==
    /\ ras.pc = "trended"
    /\ Len(ras.daT.time) = 2
    /\ Cardinality(Pixels(ras.daT.xs, ras.daT.ys)) = 2
    /\ ValidPixels(1) = {}
    /\ Cardinality(ValidPixels(2)) = 1
    /\ Len(ras.mean_trend.time) = 1
    /\ ras.mean_trend.time[1] = ras.daT.time[2]
====
